---- MODULE Spec2Model ----
(***************************************************************************)
(* puzzle-vault importer: the file watcher (src/importer/watcher.py) and   *)
(* the file processor (src/importer/processor.py) over the puzzle catalog  *)
(* (src/shared/models/puzzle.py, src/shared/models/source.py).             *)
(*                                                                         *)
(* One step of a thread is one file-system call or one database call of    *)
(* the code, so that passes running in different threads interleave the    *)
(* way the threads of the importer process do.                             *)
(***************************************************************************)
EXTENDS Integers, FiniteSets, Sequences, TLC

\* ------------------------------------------------------------------ bounds
MaxDrops == 2
MaxFaults == 1
\* agent tasks ever queued
MaxTasks == 2
\* the agents' clock stops here
MaxClock == 2
\* the importer's wall clock stops here
MaxUtc == 2

\* one tick is half a second; threading.Timer(1.0, ...) waits two ticks
DebounceTicks == 2
\* %S: the timestamp of a quarantine changes every second tick
TicksPerSecond == 2

\* ------------------------------------------------------------- the sources
Sources == {"s1", "s2"}
Threads == {"t1", "t2"}
Bases == {"a", "b"}
PuzBytes == {"x", "junk"}
MetaJson == {"ok", "nodate"}

short_code(s) == IF s = "s1" THEN "nyt" ELSE ""

\* Source.folder_name
folder_name(s) == IF short_code(s) # "" THEN short_code(s) ELSE s

\* the directories under the puzzles path, in the order iterdir() yields
\* them: one per source and a stray one
FolderOrder == <<"nyt", "stray", "s2">>
Folders == {FolderOrder[i] : i \in 1..Len(FolderOrder)}

\* source_lookup.get(folder_name) of process_all; "" is None
source_lookup(f) ==
  IF \E s \in Sources : folder_name(s) = f
  THEN CHOOSE s \in Sources : folder_name(s) = f
  ELSE ""

SourceFolders == {folder_name(s) : s \in Sources}

\* the files an import directory can hold: <folder>/import/<base>.puz and
\* <folder>/import/<base>.meta.json
Paths == SourceFolders \X Bases \X {"puz", "meta"}

\* the import directory files are dropped into
DropPaths == {p \in Paths : p[1] = "nyt"}

\* a file is its inode number and its bytes; no file has inode 0
Absent == [ino |-> 0, data |-> "none"]

\* puz.read raises on bytes that are no puzzle
puz_read_ok(bytes) == bytes # "junk"

\* FileProcessor._calculate_file_hash: the SHA256 hex digest of the bytes
calculate_file_hash(bytes) == <<"sha256", bytes>>

\* ------------------------------------------------- sources and agent tasks

\* Python's None in a nullable column or an optional form field
None == -1000

\* one tick of the agents' clock is 30 seconds
HourTicks == 120
\* timedelta(minutes=1)
CooldownTicks == 2
\* AgentScheduler(check_interval=60): sixty sleeps of one second
CheckIntervalTicks == 2

\* the ids uuid4 can give to a source created by the web application
NewIds == {"u1"}

\* the rows of table sources for the sources the importer knows
SeedSources ==
  {[id |-> s, short_code |-> short_code(s), agent_type |-> "",
    agent_enabled |-> FALSE, schedule_enabled |-> FALSE,
    schedule_interval_hours |-> None, last_scheduled_run_at |-> None] :
     s \in Sources}

\* what the form of POST /sources can carry
ShortCodeInputs == {"", " ", " s2 ", "nyt"}
AgentTypeInputs == {"", "null"}
IntervalInputs == {None, 0, 3}

\* str.strip() on the short codes of the form
strip(str) ==
  CASE str = " " -> ""
    [] str = " s2 " -> "s2"
    [] OTHER -> str

\* source_utils.normalize_short_code; "" is None
normalize_short_code(str) ==
  IF str = "" THEN "" ELSE strip(str)

\* Source.folder_name of a row
row_folder_name(r) == IF r.short_code # "" THEN r.short_code ELSE r.id

\* process_all: source_lookup[source.folder_name] = source.id over the rows
folder_sources(rows, f) == {r.id : r \in {x \in rows : row_folder_name(x) = f}}

\* the sources table: id is the primary key, short_code is unique when set
sources_insert_ok(rows, r) ==
  /\ \A x \in rows : x.id # r.id
  /\ r.short_code # "" => \A x \in rows : x.short_code # r.short_code

\* a datetime: naive as the DateTime columns return it and datetime.utcnow()
\* makes it, or aware as datetime.now(UTC) makes it
naive(t) == [t |-> t, aware |-> FALSE]
aware(t) == [t |-> t, aware |-> TRUE]

\* the None a property that returns datetime | None gives
NoDatetime == naive(None)

\* Source.next_run_at
next_run_at(r) ==
  IF ~r.schedule_enabled \/ r.schedule_interval_hours \in {None, 0}
  THEN NoDatetime
  ELSE naive(r.last_scheduled_run_at + r.schedule_interval_hours * HourTicks)

\* a pending or running task of the source
in_flight(tsks, source_id) ==
  {k \in tsks : k.source_id = source_id /\ k.status \in {"pending", "running"}}

VARIABLES
  import_dir,     \* path -> the file at <folder>/import/<base>.<kind>, or Absent
  drops,          \* files created so far; the next one gets inode drops + 1
  puzzles_dir,    \* the files under <folder>/puzzles/
  errors_dir,     \* the files under <folder>/errors/
  catalog,        \* the rows of table puzzles
  next_id,        \* the next generated Puzzle.id
  faults,         \* injected I/O failures so far
  observing,      \* observer.start() was called
  timers,         \* the started threading.Timer objects that have not run yet
  pc,             \* where each thread is
  todo,           \* process_all: the folders iterdir() has still to yield
  cur,            \* _process_source: folder_name
  ready,          \* _process_source: the ready pairs not yet processed
  cand,           \* _process_one: the pair being processed
  file_hash,      \* _process_one: file_hash
  puzzle_id,      \* _process_one: puzzle.id once inserted
  exc,            \* the exception a thread is handling, "" when none
  unknown_folders_logged,
  skip_logs,      \* history: folder -> number of "Skipping unknown" log lines
  since_event,    \* history: ticks since the last relevant event, capped
  burst_len,      \* history: events of the current burst, capped at 2
  burst_runs,     \* history: passes the timers of the current burst started
  response,       \* web: the answer to the last request for a puzzle file
  sources_tbl,    \* db: the rows of table sources
  creating,       \* web: the source a create_source request has stored so far
  tasks,          \* db: the rows of table agent_tasks
  clock,          \* the time, in units of 30 seconds
  sched,          \* agents: the scheduler thread
  worker,         \* agents: the worker loop
  utc,            \* the wall clock of the importer's host, in half seconds
  timestamp       \* _move_to_errors: the timestamp of each thread's quarantine

vars == <<import_dir, drops, puzzles_dir, errors_dir, catalog, next_id,
          faults, observing, timers, pc, todo, cur, ready, cand,
          file_hash, puzzle_id, exc, unknown_folders_logged, skip_logs,
          since_event, burst_len, burst_runs, response,
          sources_tbl, creating, tasks, clock, sched, worker,
          utc, timestamp>>

fs == <<import_dir, puzzles_dir, errors_dir>>
db == <<catalog, next_id>>
env == <<drops>>
hist == <<since_event, burst_len, burst_runs>>
watch == <<observing, timers, hist>>
locals == <<todo, cur, ready, cand, file_hash, puzzle_id, exc>>
logs == <<unknown_folders_logged, skip_logs>>

\* the state of the web application and of the agent worker, which the
\* importer process does not touch
apps == <<response, sources_tbl, creating, tasks, clock, sched, worker>>
wallclock == <<utc, timestamp>>
others == <<apps, wallclock>>

NoCand == [base |-> "", puz |-> 0, meta |-> 0]

\* no request was answered yet
NoResponse == [op |-> "", puzzle_id |-> 0, status |-> 0, file_path |-> <<"none">>]

\* what an earlier run of the importer may have left: a pair that waits in
\* the import directory of a source, and a puzzle of the same bytes imported
\* for source s1
LeftPair(f) ==
  IF f = "nyt"
  THEN (<<"nyt", "b", "puz">> :> [ino |-> -1, data |-> "x"])
         @@ (<<"nyt", "b", "meta">> :> [ino |-> -2, data |-> "ok"])
  ELSE (<<"s2", "b", "puz">> :> [ino |-> -5, data |-> "x"])
         @@ (<<"s2", "b", "meta">> :> [ino |-> -6, data |-> "ok"])
EarlierRow ==
  [id |-> 1, source_id |-> "s1", file_hash |-> calculate_file_hash("x"),
   file_path |-> <<"nyt", 1, "puz">>]
EarlierFiles ==
  {[folder |-> "nyt", id |-> 1, ext |-> "puz", file |-> [ino |-> -3, data |-> "x"]],
   [folder |-> "nyt", id |-> 1, ext |-> "meta.json",
    file |-> [ino |-> -4, data |-> "ok"]]}

\* the importer process right after construction, over what is on disk and
\* in the database
Start(left, imported) ==
  /\ import_dir = [p \in Paths |->
                     IF p[1] \in left /\ p \in DOMAIN LeftPair(p[1])
                     THEN LeftPair(p[1])[p]
                     ELSE Absent]
  /\ drops = 0
  /\ puzzles_dir = (IF imported THEN EarlierFiles ELSE {})
  /\ errors_dir = {}
  /\ catalog = (IF imported THEN {EarlierRow} ELSE {})
  /\ next_id = (IF imported THEN 2 ELSE 1)
  /\ faults = 0
  /\ observing = FALSE
  /\ timers = {}
  /\ pc = [t \in Threads |-> IF t = "t1" THEN "main" ELSE "idle"]
  /\ todo = [t \in Threads |-> <<>>]
  /\ cur = [t \in Threads |-> ""]
  /\ ready = [t \in Threads |-> {}]
  /\ cand = [t \in Threads |-> NoCand]
  /\ file_hash = [t \in Threads |-> <<>>]
  /\ puzzle_id = [t \in Threads |-> 0]
  /\ exc = [t \in Threads |-> ""]
  /\ unknown_folders_logged = {}
  /\ skip_logs = [f \in Folders |-> 0]
  /\ since_event = DebounceTicks + 1
  /\ burst_len = 0
  /\ burst_runs = 0
  /\ response = NoResponse
  /\ sources_tbl = SeedSources
  /\ creating = ""
  /\ tasks = {}
  /\ clock = 0
  /\ sched = [pc |-> "sleep", now |-> 0, todo |-> {}, adds |-> {}, seen |-> {},
              wake |-> CheckIntervalTicks]
  /\ worker = [pc |-> "poll", task |-> 0, status |-> ""]
  /\ utc = 0
  /\ timestamp = [t \in Threads |-> 0]

Init == \E imported \in BOOLEAN : Start({}, imported)

InitScan ==
  \E left \in SUBSET SourceFolders : \E imported \in BOOLEAN : Start(left, imported)

Min(a, b) == IF a < b THEN a ELSE b

\* --------------------------------------------------------------- watcher.py

\* ImportEventHandler._schedule_process with the cancel() left out
schedule_process_no_cancel ==
  timers' = {[tm EXCEPT !.cur = FALSE] : tm \in timers}
              \cup {[rem |-> DebounceTicks, cur |-> TRUE]}

\* ImportEventHandler._schedule_process: cancel self._debounce_timer (no
\* effect on a timer that has run) and start a new Timer(1.0, _run_process)
schedule_process ==
  timers' = {tm \in timers : ~tm.cur}
              \cup {[rem |-> DebounceTicks, cur |-> TRUE]}

\* history of the bursts: an event less than a window after the previous one
\* continues the burst, any other event begins a new one; a burst is
\* forgotten once a window and a tick have passed without an event
NoteEvent ==
  /\ burst_len' = IF since_event < DebounceTicks THEN Min(burst_len + 1, 2) ELSE 1
  /\ burst_runs' = IF since_event < DebounceTicks THEN burst_runs ELSE 0
  /\ since_event' = 0

\* Path(event.src_path).suffix of a file of the kind
suffix(kind) ==
  CASE kind = "puz" -> ".puz"
    [] kind = "meta" -> ".json"
    [] OTHER -> ".tmp"

\* ImportEventHandler.on_created and on_modified, for an event of a file
on_event(kind) ==
  IF suffix(kind) \in {".puz", ".json"}
  THEN schedule_process /\ NoteEvent
  ELSE UNCHANGED <<timers, hist>>

\* a Timer whose delay is over runs its callback before anything that
\* happens later
NoTimerDue == \A tm \in timers : tm.rem > 0

\* an agent or a person creates a file in an import directory; the observer,
\* once started, delivers on_created
drop_file(p, data) ==
  /\ drops < MaxDrops
  /\ NoTimerDue
  /\ import_dir[p] = Absent
  /\ import_dir' = [import_dir EXCEPT ![p] = [ino |-> drops + 1, data |-> data]]
  /\ drops' = drops + 1
  /\ IF observing THEN on_event(p[3]) ELSE UNCHANGED <<timers, hist>>
  /\ UNCHANGED <<puzzles_dir, errors_dir, db, faults, observing, pc, locals,
                 logs>>
  /\ UNCHANGED others

\* a file in an import directory is written again with the same bytes; the
\* observer delivers on_modified
touch_file(p) ==
  /\ observing
  /\ NoTimerDue
  /\ import_dir[p] # Absent
  /\ on_event(p[3])
  /\ UNCHANGED <<fs, db, env, faults, observing, pc, locals, logs>>
  /\ UNCHANGED others

\* half a second passes for the timers and the bursts
HalfSecond ==
  /\ NoTimerDue
  /\ timers # {} \/ since_event <= DebounceTicks
  /\ timers' = {[tm EXCEPT !.rem = @ - 1] : tm \in timers}
  /\ since_event' = Min(since_event + 1, DebounceTicks + 1)
  /\ IF since_event >= DebounceTicks
     THEN burst_len' = 0 /\ burst_runs' = 0
     ELSE UNCHANGED <<burst_len, burst_runs>>
  /\ UNCHANGED <<fs, db, env, faults, observing, pc, locals, logs>>

\* half a second passes; the wall clock is left out
Tick ==
  /\ HalfSecond
  /\ UNCHANGED others

\* half a second passes, on the wall clock too
Tock ==
  /\ utc < MaxUtc
  /\ HalfSecond
  /\ utc' = utc + 1
  /\ UNCHANGED <<apps, timestamp>>

\* ImportWatcher.start: observer.start(), then the initial scan begins
watcher_start(t) ==
  /\ pc[t] = "main"
  /\ observing' = TRUE
  /\ pc' = [pc EXCEPT ![t] = "scan"]
  /\ todo' = [todo EXCEPT ![t] = FolderOrder]
  /\ UNCHANGED <<fs, db, env, faults, timers, hist, cur, ready, cand,
                 file_hash, puzzle_id, exc, logs>>
  /\ UNCHANGED others

\* a Timer thread wakes up and calls ImportEventHandler._run_process
run_process(t) ==
  /\ pc[t] = "idle"
  /\ \E tm \in timers :
       /\ tm.rem = 0
       /\ timers' = timers \ {tm}
  /\ burst_runs' = Min(burst_runs + 1, 2)
  /\ pc' = [pc EXCEPT ![t] = "scan"]
  /\ todo' = [todo EXCEPT ![t] = FolderOrder]
  /\ UNCHANGED <<fs, db, env, faults, observing, since_event, burst_len, cur,
                 ready, cand, file_hash, puzzle_id, exc, logs>>
  /\ UNCHANGED others

\* ImportWatcher.stop, called by the signal handler: the observer is stopped
\* and joined, so no further event is delivered; the debounce Timer is left
\* as it is
stop ==
  /\ observing
  /\ observing' = FALSE
  /\ UNCHANGED <<fs, db, env, faults, timers, hist, pc, locals, logs>>
  /\ UNCHANGED others

\* stop() was called: the observer was started and is not running
stopped == ~observing /\ pc["t1"] # "main"

\* ------------------------------------------------------------- processor.py

PuzPath(t) == <<cur[t], cand[t].base, "puz">>
MetaPath(t) == <<cur[t], cand[t].base, "meta">>

\* FileProcessor._find_ready_pairs: every *.puz of the import directory whose
\* .meta.json exists (with the files found, for the properties)
find_ready_pairs(f) ==
  {[base |-> b,
    puz |-> import_dir[<<f, b, "puz">>].ino,
    meta |-> import_dir[<<f, b, "meta">>].ino] :
      b \in {x \in Bases : /\ import_dir[<<f, x, "puz">>] # Absent
                           /\ import_dir[<<f, x, "meta">>] # Absent}}

\* the frame of a step of thread t inside a pass
Goto(t, label) == pc' = [pc EXCEPT ![t] = label]

\* an exception leaves _process_one (finally: db.close()); _process_source
\* catches it, logs it and calls _move_to_errors
Raise(t, e) ==
  /\ Goto(t, "q_mkdir")
  /\ exc' = [exc EXCEPT ![t] = e]

\* an exception leaves _move_to_errors: nothing in _process_source or
\* process_all catches it
Propagate(t, e) ==
  /\ Goto(t, "unwind")
  /\ exc' = [exc EXCEPT ![t] = e]

\* _process_one returns; back to the for loop of _process_source
Return(t) ==
  /\ Goto(t, "loop")
  /\ cand' = [cand EXCEPT ![t] = NoCand]
  /\ file_hash' = [file_hash EXCEPT ![t] = <<>>]
  /\ puzzle_id' = [puzzle_id EXCEPT ![t] = 0]
  /\ exc' = [exc EXCEPT ![t] = ""]

\* an injected failure of an I/O or database call
Fault == faults < MaxFaults /\ faults' = faults + 1

\* process_all: iterdir() is exhausted; finally: db.close()
process_all_done(t) ==
  /\ pc[t] = "scan"
  /\ todo[t] = <<>>
  /\ Goto(t, "idle")
  /\ UNCHANGED <<fs, db, env, faults, watch, locals, logs>>
  /\ UNCHANGED others

\* process_all: a folder that matches no source is skipped; the test whether
\* its name was logged before
process_all_unknown(t) ==
  /\ pc[t] = "scan"
  /\ todo[t] # <<>>
  /\ LET f == Head(todo[t]) IN
       /\ source_lookup(f) = ""
       /\ IF f \notin unknown_folders_logged
          THEN Goto(t, "log_unknown") /\ UNCHANGED todo
          ELSE todo' = [todo EXCEPT ![t] = Tail(@)] /\ UNCHANGED pc
  /\ UNCHANGED <<fs, db, env, faults, watch, cur, ready, cand, file_hash,
                 puzzle_id, exc, logs>>
  /\ UNCHANGED others

\* process_all: logger.debug("Skipping unknown source folder"), then the name
\* is added to _unknown_folders_logged; continue
process_all_log_unknown(t) ==
  /\ pc[t] = "log_unknown"
  /\ LET f == Head(todo[t]) IN
       /\ skip_logs' = [skip_logs EXCEPT ![f] = Min(@ + 1, 2)]
       /\ unknown_folders_logged' = unknown_folders_logged \cup {f}
  /\ todo' = [todo EXCEPT ![t] = Tail(@)]
  /\ Goto(t, "scan")
  /\ UNCHANGED <<fs, db, env, faults, watch, cur, ready, cand, file_hash,
                 puzzle_id, exc>>
  /\ UNCHANGED others

\* process_all: a source folder; _process_source enumerates its ready pairs
process_all_source(t) ==
  /\ pc[t] = "scan"
  /\ todo[t] # <<>>
  /\ LET f == Head(todo[t]) IN
       /\ source_lookup(f) # ""
       /\ todo' = [todo EXCEPT ![t] = Tail(@)]
       /\ cur' = [cur EXCEPT ![t] = f]
       /\ ready' = [ready EXCEPT ![t] = find_ready_pairs(f)]
  /\ Goto(t, "loop")
  /\ UNCHANGED <<fs, db, env, faults, watch, cand, file_hash, puzzle_id, exc,
                 logs>>
  /\ UNCHANGED others

\* _process_source: the next ready pair, or the end of the loop
process_source_next(t) ==
  /\ pc[t] = "loop"
  /\ IF ready[t] = {}
     THEN /\ Goto(t, "scan")
          /\ cur' = [cur EXCEPT ![t] = ""]
          /\ UNCHANGED <<ready, cand>>
     ELSE \E c \in ready[t] :
            /\ ready' = [ready EXCEPT ![t] = @ \ {c}]
            /\ cand' = [cand EXCEPT ![t] = c]
            /\ Goto(t, "read_meta")
            /\ UNCHANGED cur
  /\ UNCHANGED <<fs, db, env, faults, watch, todo, file_hash, puzzle_id, exc,
                 logs>>
  /\ UNCHANGED others

\* _process_one: open(meta_file), json.load, the puzzle_date check
process_one_read_meta(t) ==
  /\ pc[t] = "read_meta"
  /\ IF import_dir[MetaPath(t)] = Absent
     THEN Raise(t, "FileNotFoundError")
     ELSE IF import_dir[MetaPath(t)].data = "nodate"
     THEN Raise(t, "ValueError")
     ELSE Goto(t, "parse") /\ UNCHANGED exc
  /\ UNCHANGED <<fs, db, env, faults, watch, todo, cur, ready, cand,
                 file_hash, puzzle_id, logs>>
  /\ UNCHANGED others

\* _process_one: puz.read(puz_file)
process_one_parse(t) ==
  /\ pc[t] = "parse"
  /\ IF import_dir[PuzPath(t)] = Absent
     THEN Raise(t, "FileNotFoundError")
     ELSE IF ~puz_read_ok(import_dir[PuzPath(t)].data)
     THEN Raise(t, "PuzzleFormatError")
     ELSE Goto(t, "hash") /\ UNCHANGED exc
  /\ UNCHANGED <<fs, db, env, faults, watch, todo, cur, ready, cand,
                 file_hash, puzzle_id, logs>>
  /\ UNCHANGED others

\* _process_one: file_hash = self._calculate_file_hash(puz_file)
process_one_hash(t) ==
  /\ pc[t] = "hash"
  /\ IF import_dir[PuzPath(t)] = Absent
     THEN Raise(t, "FileNotFoundError") /\ UNCHANGED file_hash
     ELSE /\ file_hash' = [file_hash EXCEPT
                 ![t] = calculate_file_hash(import_dir[PuzPath(t)].data)]
          /\ Goto(t, "query")
          /\ UNCHANGED exc
  /\ UNCHANGED <<fs, db, env, faults, watch, todo, cur, ready, cand,
                 puzzle_id, logs>>
  /\ UNCHANGED others

\* a duplicate query that ignores the source
existing_puzzle_any_source(source_id, hash) ==
  {r \in catalog : r.file_hash = hash}

\* the rows the duplicate query of _process_one matches
existing_puzzle(source_id, hash) ==
  {r \in catalog : r.source_id = source_id /\ r.file_hash = hash}

\* _process_one: the duplicate query
process_one_query(t) ==
  /\ pc[t] = "query"
  /\ IF existing_puzzle(source_lookup(cur[t]), file_hash[t]) # {}
     THEN Goto(t, "dup_puz")
     ELSE Goto(t, "insert")
  /\ UNCHANGED <<fs, db, env, faults, watch, locals, logs>>
  /\ UNCHANGED others

\* _process_one, duplicate: the steps of the branch
DupSteps == {"dup_puz", "rm_puz", "dup_meta", "rm_meta"}

\* _process_one, duplicate: if puz_file.exists()
process_one_dup_puz(t) ==
  /\ pc[t] = "dup_puz"
  /\ IF import_dir[PuzPath(t)] # Absent
     THEN Goto(t, "rm_puz")
     ELSE Goto(t, "dup_meta")
  /\ UNCHANGED <<fs, db, env, faults, watch, locals, logs>>
  /\ UNCHANGED others

\* _process_one, duplicate: puz_file.unlink()
process_one_rm_puz(t) ==
  /\ pc[t] = "rm_puz"
  /\ IF import_dir[PuzPath(t)] = Absent
     THEN Raise(t, "FileNotFoundError") /\ UNCHANGED import_dir
     ELSE /\ import_dir' = [import_dir EXCEPT ![PuzPath(t)] = Absent]
          /\ Goto(t, "dup_meta")
          /\ UNCHANGED exc
  /\ UNCHANGED <<puzzles_dir, errors_dir, db, env, faults, watch, todo, cur,
                 ready, cand, file_hash, puzzle_id, logs>>
  /\ UNCHANGED others

\* _process_one, duplicate: if meta_file.exists(); return when it does not
process_one_dup_meta(t) ==
  /\ pc[t] = "dup_meta"
  /\ IF import_dir[MetaPath(t)] # Absent
     THEN Goto(t, "rm_meta") /\ UNCHANGED <<cand, file_hash, puzzle_id, exc>>
     ELSE Return(t)
  /\ UNCHANGED <<fs, db, env, faults, watch, todo, cur, ready, logs>>
  /\ UNCHANGED others

\* _process_one, duplicate: meta_file.unlink(); return
process_one_rm_meta(t) ==
  /\ pc[t] = "rm_meta"
  /\ IF import_dir[MetaPath(t)] = Absent
     THEN /\ Raise(t, "FileNotFoundError")
          /\ UNCHANGED <<import_dir, cand, file_hash, puzzle_id>>
     ELSE /\ import_dir' = [import_dir EXCEPT ![MetaPath(t)] = Absent]
          /\ Return(t)
  /\ UNCHANGED <<puzzles_dir, errors_dir, db, env, faults, watch, todo, cur,
                 ready, logs>>
  /\ UNCHANGED others

\* the table without its unique constraint
uq_source_file_hash_missing(source_id, hash) == FALSE

\* Puzzle.__table_args__: UniqueConstraint("source_id", "file_hash"); TRUE when
\* an insert of (source_id, hash) is rejected
uq_source_file_hash(source_id, hash) ==
  \E r \in catalog : r.source_id = source_id /\ r.file_hash = hash

\* _process_one: db.add(puzzle); db.commit(); db.refresh(puzzle)
process_one_insert(t) ==
  /\ pc[t] = "insert"
  /\ IF uq_source_file_hash(source_lookup(cur[t]), file_hash[t])
     THEN Raise(t, "IntegrityError") /\ UNCHANGED <<db, puzzle_id>>
     ELSE /\ catalog' = catalog \cup
                 {[id |-> next_id, source_id |-> source_lookup(cur[t]),
                   file_hash |-> file_hash[t], file_path |-> <<>>]}
          /\ next_id' = next_id + 1
          /\ puzzle_id' = [puzzle_id EXCEPT ![t] = next_id]
          /\ Goto(t, "mv_puz")
          /\ UNCHANGED exc
  /\ UNCHANGED <<fs, env, faults, watch, todo, cur, ready, cand, file_hash,
                 logs>>
  /\ UNCHANGED others

\* shutil.move of an import file to puzzles/<puzzle_id>.<ext>
stored(t, ext, file) ==
  [folder |-> cur[t], id |-> puzzle_id[t], ext |-> ext, file |-> file]

\* _move_to_puzzles: mkdir, shutil.move(puz_file, dest_puz)
move_to_puzzles_puz(t) ==
  /\ pc[t] = "mv_puz"
  /\ \/ /\ import_dir[PuzPath(t)] = Absent
        /\ Raise(t, "FileNotFoundError")
        /\ UNCHANGED <<fs, faults>>
     \/ /\ import_dir[PuzPath(t)] # Absent
        /\ Fault
        /\ Raise(t, "OSError")
        /\ UNCHANGED fs
     \/ /\ import_dir[PuzPath(t)] # Absent
        /\ puzzles_dir' = puzzles_dir \cup {stored(t, "puz", import_dir[PuzPath(t)])}
        /\ import_dir' = [import_dir EXCEPT ![PuzPath(t)] = Absent]
        /\ Goto(t, "mv_meta")
        /\ UNCHANGED <<errors_dir, faults, exc>>
  /\ UNCHANGED <<db, env, watch, todo, cur, ready, cand, file_hash, puzzle_id,
                 logs>>
  /\ UNCHANGED others

\* _move_to_puzzles: shutil.move(meta_file, dest_meta)
move_to_puzzles_meta(t) ==
  /\ pc[t] = "mv_meta"
  /\ \/ /\ import_dir[MetaPath(t)] = Absent
        /\ Raise(t, "FileNotFoundError")
        /\ UNCHANGED <<fs, faults>>
     \/ /\ import_dir[MetaPath(t)] # Absent
        /\ Fault
        /\ Raise(t, "OSError")
        /\ UNCHANGED fs
     \/ /\ import_dir[MetaPath(t)] # Absent
        /\ puzzles_dir' = puzzles_dir \cup
               {stored(t, "meta.json", import_dir[MetaPath(t)])}
        /\ import_dir' = [import_dir EXCEPT ![MetaPath(t)] = Absent]
        /\ Goto(t, "preview")
        /\ UNCHANGED <<errors_dir, faults, exc>>
  /\ UNCHANGED <<db, env, watch, todo, cur, ready, cand, file_hash, puzzle_id,
                 logs>>
  /\ UNCHANGED others

\* a preview step without the try/except: the exception leaves _move_to_puzzles
move_to_puzzles_preview_uncaught(t) ==
  /\ pc[t] = "preview"
  /\ \/ /\ Fault
        /\ Raise(t, "Exception")
        /\ UNCHANGED fs
     \/ /\ puzzles_dir' = puzzles_dir \cup {stored(t, "preview.png", Absent)}
        /\ Goto(t, "set_path")
        /\ UNCHANGED <<import_dir, errors_dir, faults, exc>>
  /\ UNCHANGED <<db, env, watch, todo, cur, ready, cand, file_hash, puzzle_id,
                 logs>>
  /\ UNCHANGED others

\* _move_to_puzzles: generate_preview_image(dest_puz, dest_preview) inside
\* try/except; the preview is written to <puzzle_id>.preview.png
move_to_puzzles_preview(t) ==
  /\ pc[t] = "preview"
  /\ \/ /\ Fault
        /\ UNCHANGED fs
     \/ /\ puzzles_dir' = puzzles_dir \cup {stored(t, "preview.png", Absent)}
        /\ UNCHANGED <<import_dir, errors_dir, faults>>
  /\ Goto(t, "set_path")
  /\ UNCHANGED <<db, env, watch, locals, logs>>
  /\ UNCHANGED others

\* _process_one returning without puzzle.file_path = str(final_path)
process_one_set_path_unset(t) ==
  /\ pc[t] = "set_path"
  /\ Return(t)
  /\ UNCHANGED <<fs, db, env, faults, watch, todo, cur, ready, logs>>
  /\ UNCHANGED others

\* _process_one: puzzle.file_path = str(final_path); db.commit(); return
process_one_set_path(t) ==
  /\ pc[t] = "set_path"
  /\ \/ /\ Fault
        /\ Raise(t, "OperationalError")
        /\ UNCHANGED <<db, cand, file_hash, puzzle_id>>
     \/ /\ catalog' = {IF r.id = puzzle_id[t]
                       THEN [r EXCEPT !.file_path = <<cur[t], puzzle_id[t], "puz">>]
                       ELSE r : r \in catalog}
        /\ Return(t)
        /\ UNCHANGED <<next_id, faults>>
  /\ UNCHANGED <<fs, env, watch, todo, cur, ready, logs>>
  /\ UNCHANGED others

\* datetime.utcnow().strftime("%Y%m%d_%H%M%S"): the time to the second
strftime(now) == now \div TicksPerSecond

\* a file moved to errors/<base>_<timestamp>.<ext>, or the diagnostic; a
\* record stays when a later file of the same name replaces it
quarantined(t, ext, file) ==
  [folder |-> cur[t], base |-> cand[t].base, timestamp |-> timestamp[t],
   ext |-> ext, file |-> file, why |-> exc[t]]

\* the name of a file in errors/
error_name(e) == <<e.folder, e.base, e.timestamp, e.ext>>

\* _move_to_errors: the steps of the handler
QuarantineSteps ==
  {"q_mkdir", "q_puz", "q_mv_puz", "q_meta", "q_mv_meta", "q_write"}

\* _move_to_errors: errors_dir.mkdir(parents=True, exist_ok=True)
move_to_errors_mkdir(t) ==
  /\ pc[t] = "q_mkdir"
  /\ \/ Fault /\ Propagate(t, "OSError") /\ UNCHANGED timestamp
     \/ /\ Goto(t, "q_puz")
        /\ timestamp' = [timestamp EXCEPT ![t] = strftime(utc)]
        /\ UNCHANGED <<faults, exc>>
  /\ UNCHANGED <<fs, db, env, watch, todo, cur, ready, cand, file_hash,
                 puzzle_id, logs>>
  /\ UNCHANGED <<apps, utc>>

\* _move_to_errors: if puz_file.exists()
move_to_errors_puz_exists(t) ==
  /\ pc[t] = "q_puz"
  /\ IF import_dir[PuzPath(t)] # Absent
     THEN Goto(t, "q_mv_puz")
     ELSE Goto(t, "q_meta")
  /\ UNCHANGED <<fs, db, env, faults, watch, locals, logs>>
  /\ UNCHANGED others

\* _move_to_errors: shutil.move(puz_file, dest_puz)
move_to_errors_puz(t) ==
  /\ pc[t] = "q_mv_puz"
  /\ \/ /\ import_dir[PuzPath(t)] = Absent
        /\ Propagate(t, "FileNotFoundError")
        /\ UNCHANGED <<fs, faults>>
     \/ /\ import_dir[PuzPath(t)] # Absent
        /\ Fault
        /\ Propagate(t, "OSError")
        /\ UNCHANGED fs
     \/ /\ import_dir[PuzPath(t)] # Absent
        /\ errors_dir' = errors_dir \cup
               {quarantined(t, "puz", import_dir[PuzPath(t)])}
        /\ import_dir' = [import_dir EXCEPT ![PuzPath(t)] = Absent]
        /\ Goto(t, "q_meta")
        /\ UNCHANGED <<puzzles_dir, faults, exc>>
  /\ UNCHANGED <<db, env, watch, todo, cur, ready, cand, file_hash, puzzle_id,
                 logs>>
  /\ UNCHANGED others

\* _move_to_errors: if meta_file.exists()
move_to_errors_meta_exists(t) ==
  /\ pc[t] = "q_meta"
  /\ IF import_dir[MetaPath(t)] # Absent
     THEN Goto(t, "q_mv_meta")
     ELSE Goto(t, "q_write")
  /\ UNCHANGED <<fs, db, env, faults, watch, locals, logs>>
  /\ UNCHANGED others

\* _move_to_errors: shutil.move(meta_file, dest_meta)
move_to_errors_meta(t) ==
  /\ pc[t] = "q_mv_meta"
  /\ \/ /\ import_dir[MetaPath(t)] = Absent
        /\ Propagate(t, "FileNotFoundError")
        /\ UNCHANGED <<fs, faults>>
     \/ /\ import_dir[MetaPath(t)] # Absent
        /\ Fault
        /\ Propagate(t, "OSError")
        /\ UNCHANGED fs
     \/ /\ import_dir[MetaPath(t)] # Absent
        /\ errors_dir' = errors_dir \cup
               {quarantined(t, "meta.json", import_dir[MetaPath(t)])}
        /\ import_dir' = [import_dir EXCEPT ![MetaPath(t)] = Absent]
        /\ Goto(t, "q_write")
        /\ UNCHANGED <<puzzles_dir, faults, exc>>
  /\ UNCHANGED <<db, env, watch, todo, cur, ready, cand, file_hash, puzzle_id,
                 logs>>
  /\ UNCHANGED others

\* _move_to_errors: error_file.write_text(error_msg); back to the loop
move_to_errors_write(t) ==
  /\ pc[t] = "q_write"
  /\ \/ /\ Fault
        /\ Propagate(t, "OSError")
        /\ UNCHANGED <<fs, cand, file_hash, puzzle_id>>
     \/ /\ errors_dir' = errors_dir \cup {quarantined(t, "error.txt", Absent)}
        /\ Return(t)
        /\ UNCHANGED <<import_dir, puzzles_dir, faults>>
  /\ UNCHANGED <<db, env, watch, todo, cur, ready, logs>>
  /\ UNCHANGED others

\* the exception reaches the try/except of _run_process (or of
\* ImportWatcher.start), which logs it; the pass is over
run_process_except(t) ==
  /\ pc[t] = "unwind"
  /\ Goto(t, "idle")
  /\ todo' = [todo EXCEPT ![t] = <<>>]
  /\ cur' = [cur EXCEPT ![t] = ""]
  /\ ready' = [ready EXCEPT ![t] = {}]
  /\ cand' = [cand EXCEPT ![t] = NoCand]
  /\ file_hash' = [file_hash EXCEPT ![t] = <<>>]
  /\ puzzle_id' = [puzzle_id EXCEPT ![t] = 0]
  /\ exc' = [exc EXCEPT ![t] = ""]
  /\ UNCHANGED <<fs, db, env, faults, watch, logs>>
  /\ UNCHANGED others


\* ------------------------------------------------------- the web application

\* Puzzle.preview_path: the importer leaves filename NULL, so the path is
\* <directory of file_path>/<id>.preview.svg
preview_path(puzzle) == <<puzzle.file_path[1], puzzle.id, "preview.svg">>

\* Puzzle.has_preview: preview_path().exists()
has_preview(puzzle) ==
  \E s \in puzzles_dir :
    <<s.folder, s.id, s.ext>> = preview_path(puzzle)

\* pathlib: Path(puzzle.file_path); Path("") is the current directory "."
Path(file_path) == IF file_path = <<>> THEN <<".">> ELSE file_path

\* file_path.exists(): the working directory of the process exists, a
\* puzzle file exists once it was moved under puzzles/
path_exists(path) ==
  \/ path = <<".">>
  \/ /\ Len(path) = 3
     /\ \E s \in puzzles_dir :
          s.folder = path[1] /\ s.id = path[2] /\ s.ext = path[3]

\* the path names a regular file
path_is_file(path) ==
  /\ Len(path) = 3
  /\ \E s \in puzzles_dir :
       s.folder = path[1] /\ s.id = path[2] /\ s.ext = path[3]

\* FileResponse(path=file_path, ...): 200 with the bytes of a regular file;
\* for anything else sending the response fails and the client gets a 500
FileResponse(path) == IF path_is_file(path) THEN 200 ELSE 500

\* auth.user_has_puzzle_access
user_has_puzzle_access(user_sources, puzzle) == puzzle.source_id \in user_sources

\* the lookup of the row and the checks both download handlers share
serve_puzzle(op, pid, check_access, user_sources) ==
  LET found == {r \in catalog : r.id = pid} IN
    IF found = {}
    THEN [op |-> op, puzzle_id |-> pid, status |-> 404,
          file_path |-> <<"none">>]
    ELSE LET puzzle == CHOOSE r \in found : TRUE IN
      [op |-> op, puzzle_id |-> pid, file_path |-> puzzle.file_path,
       status |-> IF check_access /\ ~user_has_puzzle_access(user_sources, puzzle)
                  THEN 403
                  ELSE IF ~path_exists(Path(puzzle.file_path)) THEN 404
                  ELSE FileResponse(Path(puzzle.file_path))]

\* feed_router.download_puzzle_by_key: GET /puzzles/{puzzle_id}.puz with a
\* feed key
download_puzzle_by_key(pid, user_sources) ==
  /\ response' = serve_puzzle("download_puzzle_by_key", pid, TRUE, user_sources)
  /\ UNCHANGED <<fs, db, env, faults, watch, pc, locals, logs>>
  /\ UNCHANGED wallclock
  /\ UNCHANGED <<sources_tbl, creating, tasks, clock, sched, worker>>

\* web_ui_router.download_puzzle: GET /puzzles/{puzzle_id}/download
download_puzzle(pid) ==
  /\ response' = serve_puzzle("download_puzzle", pid, FALSE, {})
  /\ UNCHANGED <<fs, db, env, faults, watch, pc, locals, logs>>
  /\ UNCHANGED wallclock
  /\ UNCHANGED <<sources_tbl, creating, tasks, clock, sched, worker>>

\* -------------------------------------------- the web application: sources

\* the row with the given id
source_row(id) == CHOOSE r \in sources_tbl : r.id = id

\* db.add(AgentTask(source_id=..., status="pending")); db.commit(): the id is
\* fresh and queued_at defaults to the time of the insert
RECURSIVE add_tasks(_, _, _)
add_tasks(tsks, source_ids, at) ==
  IF source_ids = {} THEN tsks
  ELSE LET s == CHOOSE x \in source_ids : TRUE IN
    add_tasks(tsks \cup {[id |-> Cardinality(tsks) + 1, source_id |-> s,
                          status |-> "pending", queued_at |-> at]},
              source_ids \ {s}, at)

\* create_source up to its first commit: the row is stored with
\* last_scheduled_run_at still NULL; a short code or id already taken makes the
\* insert fail and the request end
create_source_insert(id, short, agent_type, agent_enabled, schedule_enabled, interval) ==
  /\ creating = ""
  /\ LET final_agent_type == agent_type
         preset == final_agent_type # "" /\ interval \in {None, 0}
         source == [id |-> id,
                    short_code |-> normalize_short_code(short),
                    agent_type |-> final_agent_type,
                    agent_enabled |-> agent_enabled,
                    schedule_enabled |-> IF preset THEN TRUE ELSE schedule_enabled,
                    schedule_interval_hours |->
                      IF preset THEN 3 ELSE interval,
                    last_scheduled_run_at |-> None] IN
       /\ sources_insert_ok(sources_tbl, source)
       /\ sources_tbl' = sources_tbl \cup {source}
       /\ creating' = id
  /\ UNCHANGED <<fs, db, env, faults, watch, pc, locals, logs>>
  /\ UNCHANGED wallclock
  /\ UNCHANGED <<response, tasks, clock, sched, worker>>

\* create_source after its first commit: with a schedule and an enabled agent
\* the first run is queued and last_scheduled_run_at set, in a second commit
create_source_first_run ==
  /\ creating # ""
  /\ LET source == source_row(creating) IN
       IF source.schedule_enabled /\ source.agent_type # "" /\ source.agent_enabled
       THEN /\ Cardinality(tasks) < MaxTasks
            /\ tasks' = add_tasks(tasks, {source.id}, clock)
            /\ sources_tbl' = (sources_tbl \ {source}) \cup
                 {[source EXCEPT !.last_scheduled_run_at = clock]}
       ELSE UNCHANGED <<tasks, sources_tbl>>
  /\ creating' = ""
  /\ UNCHANGED <<fs, db, env, faults, watch, pc, locals, logs>>
  /\ UNCHANGED wallclock
  /\ UNCHANGED <<response, clock, sched, worker>>

\* enqueue_agent_run: POST /agents/{source_id}/run queues a manual run
enqueue_agent_run(source_id) ==
  /\ \E source \in sources_tbl :
       /\ source.id = source_id
       /\ source.agent_enabled /\ source.agent_type # ""
  /\ Cardinality(tasks) < MaxTasks
  /\ tasks' = add_tasks(tasks, {source_id}, clock)
  /\ UNCHANGED <<fs, db, env, faults, watch, pc, locals, logs>>
  /\ UNCHANGED wallclock
  /\ UNCHANGED <<response, sources_tbl, creating, clock, sched, worker>>

\* thirty seconds pass
AgentTick ==
  /\ clock % HourTicks < MaxClock
  /\ clock' = clock + 1
  /\ UNCHANGED <<fs, db, env, faults, watch, pc, locals, logs>>
  /\ UNCHANGED wallclock
  /\ UNCHANGED <<response, sources_tbl, creating, tasks, sched, worker>>

\* as many hours pass as a schedule interval of the form has: the processes
\* sleep and poll without finding anything to do
AgentHours ==
  /\ clock < HourTicks
  /\ \E hours \in IntervalInputs \ {None, 0} : clock' = clock + hours * HourTicks
  /\ UNCHANGED <<fs, db, env, faults, watch, pc, locals, logs>>
  /\ UNCHANGED wallclock
  /\ UNCHANGED <<response, sources_tbl, creating, tasks, sched, worker>>

\* ------------------------------------------------ the agents: the scheduler

\* comparing or subtracting an aware and a naive datetime raises TypeError
mixed(a, b) == a.aware # b.aware

\* a scheduler that queues a task for every source it looks at
maybe_queue_task_unguarded(source, now, tsks) == "queue"

\* a scheduler without the test whether the source is due
maybe_queue_task_not_due(source, now, tsks) ==
  IF source.last_scheduled_run_at = None THEN "queue"
  ELSE LET next_run == next_run_at(source) IN
    IF next_run = NoDatetime THEN "skip"
    ELSE LET last_run == aware(source.last_scheduled_run_at) IN
      IF mixed(now, last_run) THEN "TypeError"
      ELSE IF now.t - last_run.t < CooldownTicks THEN "skip"
      ELSE LET existing == in_flight(tsks, source.id) IN
        IF Cardinality(existing) > 1 THEN "MultipleResultsFound"
        ELSE IF existing # {} THEN "skip"
        ELSE "queue"

\* AgentScheduler._maybe_queue_task: "queue" where it calls _queue_task,
\* "skip" where it returns, the exception's name where it raises
maybe_queue_task(source, now, tsks) ==
  IF source.last_scheduled_run_at = None THEN "queue"
  ELSE LET next_run == next_run_at(source) IN
    IF next_run = NoDatetime THEN "skip"
    ELSE IF mixed(now, next_run) THEN "TypeError"
    ELSE IF now.t < next_run.t THEN "skip"
    ELSE LET last_run == aware(source.last_scheduled_run_at) IN
      IF mixed(now, last_run) THEN "TypeError"
      ELSE IF now.t - last_run.t < CooldownTicks THEN "skip"
      ELSE LET existing == in_flight(tsks, source.id) IN
        IF Cardinality(existing) > 1 THEN "MultipleResultsFound"
        ELSE IF existing # {} THEN "skip"
        ELSE "queue"

\* AgentScheduler._check_schedules: the select of the scheduled sources and
\* now = datetime.now(UTC)
check_schedules ==
  /\ sched.pc = "sleep"
  /\ clock >= sched.wake
  /\ sched' = [sched EXCEPT !.pc = "loop", !.now = clock,
                 !.todo = {s \in sources_tbl :
                            /\ s.schedule_enabled
                            /\ s.agent_enabled
                            /\ s.schedule_interval_hours # None},
                 !.adds = {}, !.seen = {}]
  /\ UNCHANGED <<fs, db, env, faults, watch, pc, locals, logs>>
  /\ UNCHANGED wallclock
  /\ UNCHANGED <<response, sources_tbl, creating, tasks, clock, worker>>

\* _check_schedules: one turn of the loop over the sources; _queue_task adds
\* the task to the session and an exception is logged and swallowed
check_schedules_source ==
  /\ sched.pc = "loop"
  /\ \E source \in sched.todo :
       LET outcome == maybe_queue_task(source, aware(sched.now), tasks) IN
         /\ outcome = "queue" =>
              Cardinality(tasks) + Cardinality(sched.adds) < MaxTasks
         /\ sched' = [sched EXCEPT
              !.todo = @ \ {source},
              !.seen = @ \cup {source.id},
              !.adds = IF outcome = "queue" THEN @ \cup {source.id} ELSE @]
  /\ UNCHANGED <<fs, db, env, faults, watch, pc, locals, logs>>
  /\ UNCHANGED wallclock
  /\ UNCHANGED <<response, sources_tbl, creating, tasks, clock, worker>>

\* _check_schedules: db.commit() stores the tasks and the new
\* last_scheduled_run_at; then the loop sleeps check_interval seconds
check_schedules_commit ==
  /\ sched.pc = "loop"
  /\ sched.todo = {}
  /\ tasks' = add_tasks(tasks, sched.adds, clock)
  /\ sources_tbl' =
       {IF s.id \in sched.adds
        THEN [s EXCEPT !.last_scheduled_run_at = sched.now] ELSE s :
          s \in sources_tbl}
  /\ sched' = [sched EXCEPT !.pc = "sleep", !.wake = clock + CheckIntervalTicks,
                            !.adds = {}, !.seen = {}]
  /\ UNCHANGED <<fs, db, env, faults, watch, pc, locals, logs>>
  /\ UNCHANGED wallclock
  /\ UNCHANGED <<response, creating, clock, worker>>
\* --------------------------------------------------- the agents: the worker

\* a worker that takes whichever pending task the database returns
next_task_unordered(tsks) == {k \in tsks : k.status = "pending"}

\* worker_loop: select ... where status == "pending" order_by(queued_at)
\* limit(1); among tasks queued at the same time the database picks
next_task(tsks) ==
  {k \in tsks : /\ k.status = "pending"
                /\ \A o \in tsks : o.status = "pending" => k.queued_at <= o.queued_at}

\* task.status = ...; db.commit()
set_status(tsks, id, status) ==
  {IF k.id = id THEN [k EXCEPT !.status = status] ELSE k : k \in tsks}

\* a worker that starts the agent without marking the task
task_started_unmarked(tsks, id) == tsks

\* process_task: task.status = "running"; db.commit()
task_started(tsks, id) == set_status(tsks, id, "running")

\* worker_loop: the poll found a pending task
worker_poll ==
  /\ worker.pc = "poll"
  /\ \E k \in next_task(tasks) :
       worker' = [pc |-> "claim", task |-> k.id, status |-> ""]
  /\ UNCHANGED <<fs, db, env, faults, watch, pc, locals, logs>>
  /\ UNCHANGED wallclock
  /\ UNCHANGED <<response, sources_tbl, creating, tasks, clock, sched>>

\* process_task: the task is marked running and that is committed
process_task_claim ==
  /\ worker.pc = "claim"
  /\ tasks' = task_started(tasks, worker.task)
  /\ worker' = [worker EXCEPT !.pc = "logger"]
  /\ UNCHANGED <<fs, db, env, faults, watch, pc, locals, logs>>
  /\ UNCHANGED wallclock
  /\ UNCHANGED <<response, sources_tbl, creating, clock, sched>>

\* process_task: the source is loaded, AgentLogger(source, DATA_PATH) makes
\* the log directory and the handler is attached
process_task_logger ==
  /\ worker.pc = "logger"
  /\ worker' = [worker EXCEPT !.pc = "run"]
  /\ UNCHANGED <<fs, db, env, faults, watch, pc, locals, logs>>
  /\ UNCHANGED wallclock
  /\ UNCHANGED <<response, sources_tbl, creating, tasks, clock, sched>>

\* process_task: the try block; without an agent type the except branch sets
\* "failed", otherwise the agent's result decides
process_task_run ==
  /\ worker.pc = "run"
  /\ LET k == CHOOSE x \in tasks : x.id = worker.task
         source == source_row(k.source_id) IN
       \E result \in IF source.agent_type = "" THEN {"failed"}
                     ELSE {"completed", "failed"} :
         worker' = [worker EXCEPT !.pc = "commit", !.status = result]
  /\ UNCHANGED <<fs, db, env, faults, watch, pc, locals, logs>>
  /\ UNCHANGED wallclock
  /\ UNCHANGED <<response, sources_tbl, creating, tasks, clock, sched>>

\* process_task: the final db.commit()
process_task_commit ==
  /\ worker.pc = "commit"
  /\ tasks' = set_status(tasks, worker.task, worker.status)
  /\ worker' = [pc |-> "poll", task |-> 0, status |-> ""]
  /\ UNCHANGED <<fs, db, env, faults, watch, pc, locals, logs>>
  /\ UNCHANGED wallclock
  /\ UNCHANGED <<response, sources_tbl, creating, clock, sched>>

\* worker_loop: except Exception around process_task. The commit of
\* "running", the mkdir of AgentLogger, agent_logger.save() in the except
\* branch and the final commit are outside any handler of process_task; the
\* session is closed, which rolls back what was not committed
worker_loop_except ==
  /\ worker.pc \in {"claim", "logger", "run", "commit"}
  /\ Fault
  /\ worker' = [pc |-> "poll", task |-> 0, status |-> ""]
  /\ UNCHANGED <<fs, db, env, watch, pc, locals, logs>>
  /\ UNCHANGED wallclock
  /\ UNCHANGED <<response, sources_tbl, creating, tasks, clock, sched>>

\* the importer process: the watcher, its timers and the passes they start
Next ==
  \/ \E p \in DropPaths : \E d \in (IF p[3] = "puz" THEN PuzBytes ELSE MetaJson) :
       drop_file(p, d)
  \/ \E p \in DropPaths : touch_file(p)
  \/ Tick
  \/ \E t \in Threads :
       \/ watcher_start(t)
       \/ run_process(t)
       \/ run_process_except(t)
       \/ process_all_done(t)
       \/ process_all_unknown(t)
       \/ process_all_log_unknown(t)
       \/ process_all_source(t)
       \/ process_source_next(t)
       \/ process_one_read_meta(t)
       \/ process_one_parse(t)
       \/ process_one_hash(t)
       \/ process_one_query(t)
       \/ process_one_dup_puz(t)
       \/ process_one_rm_puz(t)
       \/ process_one_dup_meta(t)
       \/ process_one_rm_meta(t)
       \/ process_one_insert(t)
       \/ move_to_puzzles_puz(t)
       \/ move_to_puzzles_meta(t)
       \/ move_to_puzzles_preview(t)
       \/ process_one_set_path(t)
       \/ move_to_errors_mkdir(t)
       \/ move_to_errors_puz_exists(t)
       \/ move_to_errors_puz(t)
       \/ move_to_errors_meta_exists(t)
       \/ move_to_errors_meta(t)
       \/ move_to_errors_write(t)

Spec == Init /\ [][Next]_vars

\* the initial scan of ImportWatcher.start alone, before any Timer thread
\* runs, over import directories that may hold a pair left by an earlier run
NextScan ==
  \/ \E p \in DropPaths : \E d \in (IF p[3] = "puz" THEN PuzBytes ELSE MetaJson) :
       drop_file(p, d)
  \/ \E t \in Threads :
       \/ watcher_start(t)
       \/ run_process_except(t)
       \/ process_all_done(t)
       \/ process_all_unknown(t)
       \/ process_all_log_unknown(t)
       \/ process_all_source(t)
       \/ process_source_next(t)
       \/ process_one_read_meta(t)
       \/ process_one_parse(t)
       \/ process_one_hash(t)
       \/ process_one_query(t)
       \/ process_one_dup_puz(t)
       \/ process_one_rm_puz(t)
       \/ process_one_dup_meta(t)
       \/ process_one_rm_meta(t)
       \/ process_one_insert(t)
       \/ move_to_puzzles_puz(t)
       \/ move_to_puzzles_meta(t)
       \/ move_to_puzzles_preview(t)
       \/ process_one_set_path(t)
       \/ move_to_errors_mkdir(t)
       \/ move_to_errors_puz_exists(t)
       \/ move_to_errors_puz(t)
       \/ move_to_errors_meta_exists(t)
       \/ move_to_errors_meta(t)
       \/ move_to_errors_write(t)

SpecScan == InitScan /\ [][NextScan]_vars

\* the web application answering download requests while the importer runs
\* its initial scan
NextWeb ==
  \/ NextScan
  \/ \E pid \in 1..next_id : \E user_sources \in {{}, Sources} :
       download_puzzle_by_key(pid, user_sources)
  \/ \E pid \in 1..next_id : download_puzzle(pid)

SpecWeb == Init /\ [][NextWeb]_vars

NextAgents ==
  \/ \E id \in NewIds : \E short \in ShortCodeInputs :
       \E agent_type \in AgentTypeInputs : \E agent_enabled \in BOOLEAN :
         \E schedule_enabled \in BOOLEAN : \E interval \in IntervalInputs :
           create_source_insert(id, short, agent_type, agent_enabled,
                                schedule_enabled, interval)
  \/ create_source_first_run
  \/ \E source_id \in Sources \cup NewIds : enqueue_agent_run(source_id)
  \/ AgentTick
  \/ AgentHours
  \/ check_schedules
  \/ check_schedules_source
  \/ check_schedules_commit
  \/ worker_poll
  \/ process_task_claim
  \/ process_task_logger
  \/ process_task_run
  \/ process_task_commit
  \/ worker_loop_except

\* the web application's source pages and the agent worker, the importer idle
InitAgents == Start({}, FALSE)

SpecAgents == InitAgents /\ [][NextAgents]_vars

\* worker_loop: while True; the worker process keeps running, so a poll that
\* finds a task and a step of process_task that can be taken are taken
worker_step ==
  \/ worker_poll
  \/ process_task_claim
  \/ process_task_logger
  \/ process_task_run
  \/ process_task_commit

SpecAgentsFair == InitAgents /\ [][NextAgents]_vars /\ WF_vars(worker_step)

\* the importer process with a shutdown signal: files are created, the
\* timers run, and stop() may be called at any moment after start()
NextStop ==
  \/ NextScan
  \/ Tick
  \/ \E t \in Threads : run_process(t)
  \/ stop

InitStop == Start({}, FALSE)

SpecStop == InitStop /\ [][NextStop]_vars

\* what one thread of the importer can do once it is inside process_all
process_all_step(t) ==
  \/ run_process_except(t)
  \/ process_all_done(t)
  \/ process_all_unknown(t)
  \/ process_all_log_unknown(t)
  \/ process_all_source(t)
  \/ process_source_next(t)
  \/ process_one_read_meta(t)
  \/ process_one_parse(t)
  \/ process_one_hash(t)
  \/ process_one_query(t)
  \/ process_one_dup_puz(t)
  \/ process_one_rm_puz(t)
  \/ process_one_dup_meta(t)
  \/ process_one_rm_meta(t)
  \/ process_one_insert(t)
  \/ move_to_puzzles_puz(t)
  \/ move_to_puzzles_meta(t)
  \/ move_to_puzzles_preview(t)
  \/ process_one_set_path(t)
  \/ move_to_errors_mkdir(t)
  \/ move_to_errors_puz_exists(t)
  \/ move_to_errors_puz(t)
  \/ move_to_errors_meta_exists(t)
  \/ move_to_errors_meta(t)
  \/ move_to_errors_write(t)

\* the importer with its wall clock: the initial scan over a pair left in
\* nyt/import/, a pair of the same base name created meanwhile, and the
\* passes of the timers
NextClock ==
  \/ \E p \in DropPaths : \E d \in (IF p[3] = "puz" THEN PuzBytes ELSE {"ok"}) :
       p[2] = "b" /\ drop_file(p, d)
  \/ Tock
  \/ \E t \in Threads :
       \/ watcher_start(t)
       \/ run_process(t)
       \/ process_all_step(t)

InitClock == Start({"nyt"}, FALSE)

SpecClock == InitClock /\ [][NextClock]_vars

\* ------------------------------------------------------------ the properties

\* C1: the catalog never contains two rows with the same (source,
\* fingerprint) pair, whatever passes ran and however they interleaved
C1_source_hash_unique ==
  \A r1 \in catalog : \A r2 \in catalog :
    (r1.source_id = r2.source_id /\ r1.file_hash = r2.file_hash) => r1.id = r2.id

\* an insert of a (source, fingerprint) pair that the catalog holds was tried
\* and rejected
C1_insert_rejected ==
  \E t \in Threads :
    /\ exc[t] = "IntegrityError"
    /\ existing_puzzle(source_lookup(cur[t]), file_hash[t]) # {}

\* C2: processing a candidate whose fingerprint has a catalog entry for the
\* source deletes its two import files, changes no catalog row, writes nothing
\* to errors/ and does not raise
C2_duplicate_is_noop ==
  [][\A t \in Threads :
       (pc[t] \in DupSteps /\ pc'[t] # pc[t]) =>
         /\ pc'[t] \in DupSteps \cup {"loop"}
         /\ catalog' = catalog
         /\ errors_dir' = errors_dir
         /\ pc'[t] = "loop" =>
              /\ import_dir'[PuzPath(t)].ino # cand[t].puz
              /\ import_dir'[MetaPath(t)].ino # cand[t].meta]_vars

\* C3: the import whose insert the uniqueness constraint rejects ends as a
\* duplicate: nothing of it is placed in errors/
C3_race_loser_is_duplicate ==
  \A e \in errors_dir : e.why # "IntegrityError"

\* C4: when processing of a non-duplicate candidate returns without raising, a
\* catalog row has file_path <folder>/puzzles/<row id>.puz, that file and the
\* sidecar <row id>.meta.json exist, and neither file of the candidate is left
\* in import/
C4_success_agreement ==
  [][\A t \in Threads :
       (pc[t] = "set_path" /\ pc'[t] = "loop") =>
         /\ \E r \in catalog' :
              /\ r.id = puzzle_id[t]
              /\ r.file_path = <<cur[t], r.id, "puz">>
         /\ \E s \in puzzles_dir' :
              s.folder = cur[t] /\ s.id = puzzle_id[t] /\ s.ext = "puz"
         /\ \E s \in puzzles_dir' :
              s.folder = cur[t] /\ s.id = puzzle_id[t] /\ s.ext = "meta.json"
         /\ import_dir'[PuzPath(t)].ino # cand[t].puz
         /\ import_dir'[MetaPath(t)].ino # cand[t].meta]_vars

\* a dropped pair was imported: its row carries the path of the moved file
C4_imported ==
  \E r \in catalog :
    /\ r.file_path = <<folder_name(r.source_id), r.id, "puz">>
    /\ \E s \in puzzles_dir : s.id = r.id /\ s.ext = "meta.json" /\ s.file.ino > 0

\* C5: a file whose partner is absent is never moved or deleted (every file a
\* pass takes out of import/ was enumerated as half of a ready pair), and a
\* pass enumerates every pair that was complete when the pass started (no pass
\* is given up while a folder it has not reached holds a pair left there
\* before the importer started)
C5_readiness_gating ==
  [][/\ \A p \in Paths :
          (import_dir[p] # Absent /\ import_dir'[p] = Absent) =>
            \E t \in Threads : import_dir[p].ino \in {cand[t].puz, cand[t].meta}
     /\ \A t \in Threads :
          pc[t] = "unwind" =>
            \A f \in SourceFolders :
              (\E i \in DOMAIN todo[t] : todo[t][i] = f) =>
                \A c \in find_ready_pairs(f) : c.puz > 0 \/ c.meta > 0]_vars

\* C6: when the handler of a candidate whose processing raised is over, no
\* file of the candidate is left in import/ and a diagnostic .error.txt for
\* it is in errors/
C6_quarantine_complete ==
  [][\A t \in Threads :
       (pc[t] \in QuarantineSteps /\ pc'[t] \notin QuarantineSteps) =>
         /\ import_dir'[PuzPath(t)].ino # cand[t].puz
         /\ import_dir'[MetaPath(t)].ino # cand[t].meta
         /\ \E e \in errors_dir' :
              e.folder = cur[t] /\ e.base = cand[t].base /\ e.ext = "error.txt"]_vars

\* C7: no exception leaves the quarantine step
C7_quarantine_never_raises ==
  \A t \in Threads : pc[t] # "unwind"

\* C8: a failure while processing or quarantining one candidate leaves no
\* candidate that was enumerated as ready in the same pass unprocessed
C8_siblings_processed ==
  \A t \in Threads : pc[t] = "unwind" => ready[t] = {}

\* C9: at most one process_all pass is active at any time
C9_one_active_pass ==
  Cardinality({t \in Threads : pc[t] \notin {"main", "idle"}}) <= 1

\* C10: a burst of relevant events, each less than the debounce window after
\* the previous one, triggers exactly one pass, and that pass starts only
\* once a full window has passed without a further event
C10_debounce ==
  /\ [](/\ burst_runs <= 1
        /\ (burst_len > 0 /\ since_event >= DebounceTicks /\ NoTimerDue) =>
             burst_runs = 1)
  /\ [][burst_runs' = burst_runs + 1 => since_event = DebounceTicks]_vars

\* the pass of a burst of at least two events has started
C10_burst_ran ==
  burst_runs = 1 /\ burst_len = 2

\* C11: for a catalog row whose file_path is still the empty placeholder, a
\* request for the puzzle file is answered as not found (or refused to a user
\* without access), never with a file and never with a server error
C11_placeholder_not_available ==
  (response.op # "" /\ response.file_path = <<>>) => response.status \in {403, 404}

\* C12: the scheduler never adds a task for a source that already has a pending or running task in the table
C12_no_second_task ==
  [][\A s \in sched'.adds \ sched.adds : in_flight(tasks, s) = {}]_vars

C14_status_moves ==
  [][/\ \A k \in tasks : \E n \in tasks' :
          /\ n.id = k.id
          /\ \/ n.status = k.status
             \/ <<k.status, n.status>> \in
                  {<<"pending", "running">>, <<"running", "completed">>,
                   <<"running", "failed">>}
     /\ \A n \in tasks' :
          (\A k \in tasks : k.id # n.id) => n.status = "pending"]_vars

\* one task went all the way to completed and another to failed
C14_terminal ==
  /\ \E k \in tasks : k.status = "completed"
  /\ \E k \in tasks : k.status = "failed"

\* C15: the task the worker marks running was queued no later than every task that was pending at that moment
C15_oldest_first ==
  [][\A k \in tasks : \A n \in tasks' :
       (n.id = k.id /\ k.status = "pending" /\ n.status = "running")
       => \A o \in tasks : o.status = "pending" => k.queued_at <= o.queued_at]_vars

\* a task is running while one queued later is still pending
C15_later_waits ==
  \E k \in tasks : \E o \in tasks :
    /\ k.status = "running"
    /\ o.status = "pending"
    /\ o.queued_at > k.queued_at

\* C16: at most one task is in status running
C16_one_running ==
  Cardinality({k \in tasks : k.status = "running"}) <= 1

\* C17: no two sources have the same folder name
C17_folder_names_distinct ==
  \A a \in sources_tbl :
    Cardinality(folder_sources(sources_tbl, row_folder_name(a))) = 1

\* C18: while a pass works on a candidate it only moves forward (hashed after validated, the duplicate query after the hash, dropping or writing after the query, nothing after quarantine), and it leaves the candidate only when the candidate was dropped as a duplicate, written or quarantined
C18_candidate_state_machine ==
  [][\A t \in Threads :
       LET Work == {"read_meta", "parse", "hash", "query", "insert", "mv_puz",
                    "mv_meta", "preview", "set_path"}
                     \cup DupSteps \cup QuarantineSteps IN
         (pc[t] \in Work /\ pc'[t] # pc[t]) =>
           /\ pc'[t] \in Work \cup {"loop"}
           /\ pc'[t] = "hash" => pc[t] = "parse"
           /\ pc'[t] = "query" => pc[t] = "hash"
           /\ pc'[t] \in {"dup_puz", "insert"} => pc[t] = "query"
           /\ pc[t] \in QuarantineSteps => pc'[t] \in QuarantineSteps \cup {"loop"}
           /\ pc'[t] = "loop" =>
                pc[t] \in {"dup_meta", "rm_meta", "set_path", "q_write"}]_vars

\* C19: a candidate whose hash is in the catalog only for other sources goes from the duplicate query to the insert, and the insert adds a row for the candidate's source
C19_duplicates_per_source ==
  [][\A t \in Threads :
       LET source_id == source_lookup(cur[t])
           same == {r \in catalog : r.file_hash = file_hash[t]
                                      /\ r.source_id = source_id}
           other == {r \in catalog : r.file_hash = file_hash[t]
                                       /\ r.source_id # source_id} IN
         /\ (pc[t] = "query" /\ pc'[t] # "query" /\ same = {} /\ other # {})
              => pc'[t] = "insert"
         /\ (pc[t] = "insert" /\ pc'[t] # "insert" /\ same = {} /\ other # {})
              => \E r \in catalog' \ catalog :
                   r.source_id = source_id /\ r.file_hash = file_hash[t]]_vars

\* the same bytes are in the catalog for two sources
C19_same_hash_two_sources ==
  \E a \in catalog : \E b \in catalog :
    a.source_id # b.source_id /\ a.file_hash = b.file_hash

\* C20: the skip of a folder that matches no source is logged at most once per folder name
C20_unknown_logged_once ==
  \A f \in Folders : source_lookup(f) = "" => skip_logs[f] <= 1

\* C21: when preview generation raises, the exception is swallowed (the files moved to puzzles/ stay, nothing goes to errors/, the pass goes on to the path update), and the path update of a candidate without a preview, unless the commit itself fails, sets the row's file_path to the final location and ends the candidate with its files in puzzles/ and nothing in errors/
C21_preview_failure_not_fatal ==
  [][\A t \in Threads :
       LET no_preview ==
             \A s \in puzzles_dir :
               ~(s.folder = cur[t] /\ s.id = puzzle_id[t] /\ s.ext = "preview.png")
           kept ==
             /\ errors_dir' = errors_dir
             /\ \E s \in puzzles_dir' :
                  s.folder = cur[t] /\ s.id = puzzle_id[t] /\ s.ext = "puz"
             /\ \E s \in puzzles_dir' :
                  s.folder = cur[t] /\ s.id = puzzle_id[t] /\ s.ext = "meta.json" IN
         /\ (pc[t] = "preview" /\ pc'[t] # "preview" /\ faults' # faults) =>
              /\ pc'[t] = "set_path"
              /\ puzzles_dir' = puzzles_dir
              /\ kept
         /\ (pc[t] = "set_path" /\ pc'[t] # "set_path" /\ no_preview
               /\ faults' = faults) =>
              /\ pc'[t] = "loop"
              /\ kept
              /\ \E r \in catalog' :
                   r.id = puzzle_id[t] /\ r.file_path = <<cur[t], r.id, "puz">>]_vars

\* a pair found in import/ was imported without a preview: the row has its path, the file is in puzzles/, no preview file exists
C21_written_without_preview ==
  \E r \in catalog : \E s \in puzzles_dir :
    /\ s.id = r.id /\ s.ext = "puz"
    /\ s.file \notin {e.file : e \in EarlierFiles}
    /\ r.file_path = <<s.folder, r.id, "puz">>
    /\ \A q \in puzzles_dir :
         ~(q.folder = s.folder /\ q.id = r.id /\ q.ext = "preview.png")
    /\ faults > 0

\* C28: for an imported puzzle whose preview was generated, has_preview() is true
C28_preview_where_expected ==
  \A r \in catalog :
    (/\ r.file_path # <<>>
     /\ \E s \in puzzles_dir :
          /\ s.folder = r.file_path[1] /\ s.id = r.id
          /\ s.ext \in {"preview.png", "preview.svg"})
    => has_preview(r)

\* C22: once stop() was called no pass starts, not even from a debounce timer armed before
C22_no_pass_after_stop ==
  [][stopped => \A t \in Threads : (pc[t] = "idle" => pc'[t] = "idle")]_vars

\* C23: handling a candidate whose sidecar has no puzzle_date or whose primary file cannot be parsed changes no catalog row, and when the handling is over both files are in errors/ and neither is left in import/
C23_invalid_pair_preserved ==
  [][\A t \in Threads :
       (/\ exc[t] \in {"ValueError", "PuzzleFormatError"}
        /\ pc[t] \in QuarantineSteps
        /\ pc'[t] # pc[t]) =>
         /\ catalog' = catalog
         /\ pc'[t] \notin QuarantineSteps =>
              /\ \E e \in errors_dir' :
                   e.ext = "puz" /\ e.file.ino = cand[t].puz
              /\ \E e \in errors_dir' :
                   e.ext = "meta.json" /\ e.file.ino = cand[t].meta
              /\ \A p \in Paths :
                   import_dir'[p].ino \notin {cand[t].puz, cand[t].meta}]_vars

\* C24: when a move to puzzles/ fails after the insert was committed, the row stays in the catalog with an empty file_path, and when the handling of the failure is over neither file of the candidate is left in import/
C24_orphan_row_files_quarantined ==
  [][\A t \in Threads :
       LET orphan ==
             \E r \in catalog' : r.id = puzzle_id[t] /\ r.file_path = <<>> IN
         /\ (pc[t] \in {"mv_puz", "mv_meta"} /\ pc'[t] = "q_mkdir") => orphan
         /\ (/\ puzzle_id[t] # 0
             /\ exc[t] \in {"OSError", "FileNotFoundError"}
             /\ pc[t] \in QuarantineSteps
             /\ pc'[t] # pc[t]) =>
              /\ orphan
              /\ pc'[t] \notin QuarantineSteps =>
                   \A p \in Paths :
                     import_dir'[p].ino \notin {cand[t].puz, cand[t].meta}]_vars

\* C25: no two files ever written to errors/ have the same name
C25_quarantine_names_distinct ==
  \A a \in errors_dir : \A b \in errors_dir :
    a # b => error_name(a) # error_name(b)

\* C26: when the scheduler looks at a source that ran before, whose last run plus interval has passed, whose cooldown has elapsed and that has no pending or running task, it queues a task for it, and the commit gives every queued source one more pending task and the check time as last_scheduled_run_at
C26_due_source_queued ==
  [][/\ \A source \in sched.todo \ sched'.todo :
          (/\ source.last_scheduled_run_at # None
           /\ source.schedule_enabled /\ source.agent_enabled
           /\ source.schedule_interval_hours \notin {None, 0}
           /\ sched.now >= source.last_scheduled_run_at
                              + source.schedule_interval_hours * HourTicks
           /\ sched.now - source.last_scheduled_run_at >= CooldownTicks
           /\ in_flight(tasks, source.id) = {})
          => source.id \in sched'.adds
     /\ \A id \in sched.adds : (sched.pc = "loop" /\ sched'.pc = "sleep") =>
          /\ Cardinality({k \in tasks' \ tasks :
                            k.source_id = id /\ k.status = "pending"}) = 1
          /\ \A s \in sources_tbl' : s.id = id => s.last_scheduled_run_at = sched.now]_vars

C29_deleted_only_when_stored ==
  [][\A t \in Threads :
       (pc[t] \in {"rm_puz", "rm_meta"} /\ pc'[t] # pc[t] /\ import_dir' # import_dir)
       => \E r \in existing_puzzle(source_lookup(cur[t]), file_hash[t]) :
            r.file_path # <<>> /\ path_is_file(r.file_path)]_vars

\* C30: every task the worker has marked running is eventually completed or failed, also when a step between the claim and the final commit raises
C30_running_ends ==
  \A i \in 1..MaxTasks :
    (\E k \in tasks : k.id = i /\ k.status = "running")
      ~> (\E k \in tasks : k.id = i /\ k.status \in {"completed", "failed"})

====
